---- MODULE Spec2Model ----
(***************************************************************************)
(* Orbit: the intent router (SourceSelector), the voice email assistant    *)
(* (EmailVoiceAssistant), the scheduler's pending task (ScheduleAction),   *)
(* the scheduled emails (CommunicationService) and the playback queue      *)
(* (YouTubeMusicService).                                                  *)
(* Utterances are strings; Python's string operations are modelled         *)
(* character by character.                                                 *)
(***************************************************************************)
EXTENDS Integers, Sequences, FiniteSets, TLC

VARIABLES
    state,          \* EmailVoiceAssistant.state
    pending_task,   \* ScheduleAction.pending_task
    timers,         \* the tasks of the timer threads started and not yet run
    utterance,      \* the utterance of the last turn
    handler,        \* the handler that took the last turn
    classified,     \* whether the last turn called classify_intent
    response,       \* the chunks the last turn yielded
    exception,      \* the exception the last turn let escape, if any
    sent,           \* the comm.send_email calls of the last turn
    sends,          \* the comm.send_email calls since the current draft became pending
    cancelled,      \* whether the user cancelled the last turn while it streamed
    added,          \* the memory.add_message calls of the last turn
    printed,        \* what a timer thread printed in the last step, if one ran
    scheduled_emails,   \* CommunicationService.scheduled_emails
    now,            \* the clock datetime.now() reads, in minutes
    returned,       \* what the last call on the scheduled emails returned
    queue,          \* YouTubeMusicService.queue, the video ids of its tracks
    queue_index,    \* YouTubeMusicService.queue_index
    repeat_mode,    \* YouTubeMusicService.repeat_mode
    current_track,  \* the video id of YouTubeMusicService.current_track, if any
    is_playing,     \* YouTubeMusicService.is_playing
    max_queue_size  \* YouTubeMusicService.max_queue_size, read from the settings

\* the variables of a conversation, those of the scheduled emails, and those of the music
\* player
conversation == <<state, pending_task, timers, utterance, handler, classified, response,
                  exception, sent, sends, cancelled, added, printed>>

mail == <<scheduled_emails, now, returned>>

music == <<queue, queue_index, repeat_mode, current_track, is_playing, max_queue_size>>

vars == <<conversation, mail, music>>

(***************************************************************************)
(* Bounds                                                                  *)
(***************************************************************************)
MaxSends == 2

MaxTimers == 1

\* the scheduled emails of a session, and the minutes it lasts
MaxScheduled == 2

MaxNow == 2

(***************************************************************************)
(* The settings and the tracks of the music player                         *)
(***************************************************************************)
\* a track is its video id; "" stands for a track without one
VideoIds == {"a", "b", ""}

\* the tracks ytmusic.get_playlist(playlist_id, limit=100) returns at most
PlaylistLimit == 3

\* the values of the setting YOUTUBE_MUSIC_MAX_QUEUE_SIZE: below the playlist limit, and
\* equal to it as with the default of 100
MaxQueueSizes == {PlaylistLimit - 1, PlaylistLimit}

(***************************************************************************)
(* Python values: None and optional values                                 *)
(***************************************************************************)
None == <<>>

Some(x) == <<x>>

Val(o) == o[1]

(***************************************************************************)
(* Python string operations                                                *)
(***************************************************************************)
Char(s, i) == SubSeq(s, i, i)

Rest(s, i) == SubSeq(s, i, Len(s))

UpperChars == "ABCDEFGHIJKLMNOPQRSTUVWXYZ"

LowerChars == "abcdefghijklmnopqrstuvwxyz"

DigitChars == "0123456789"

CharsOf(s) == {Char(s, k) : k \in 1..Len(s)}

Whitespace == {" ", "\t", "\n"}

WordChars == CharsOf(UpperChars) \cup CharsOf(LowerChars) \cup CharsOf(DigitChars) \cup {"_"}

LowerChar(c) ==
    IF c \in CharsOf(UpperChars)
    THEN Char(LowerChars, CHOOSE k \in 1..26 : Char(UpperChars, k) = c)
    ELSE c

RECURSIVE Lower(_)
Lower(s) == IF s = "" THEN "" ELSE LowerChar(Char(s, 1)) \o Lower(Rest(s, 2))

RECURSIVE LStrip(_, _)
LStrip(s, cs) == IF s # "" /\ Char(s, 1) \in cs THEN LStrip(Rest(s, 2), cs) ELSE s

RECURSIVE RStrip(_, _)
RStrip(s, cs) ==
    IF s # "" /\ Char(s, Len(s)) \in cs THEN RStrip(SubSeq(s, 1, Len(s) - 1), cs) ELSE s

Strip(s, cs) == RStrip(LStrip(s, cs), cs)

Contains(kw, q) == \E i \in 1..(Len(q) - Len(kw) + 1) : SubSeq(q, i, i + Len(kw) - 1) = kw

StartsWith(q, p) == Len(p) <= Len(q) /\ SubSeq(q, 1, Len(p)) = p

AnyIn(kws, q) == \E kw \in kws : Contains(kw, q)

\* str.replace(kw, ''): every non-overlapping occurrence, left to right
RECURSIVE Remove(_, _)
Remove(s, kw) ==
    IF Len(s) < Len(kw) THEN s
    ELSE IF StartsWith(s, kw) THEN Remove(Rest(s, Len(kw) + 1), kw)
    ELSE Char(s, 1) \o Remove(Rest(s, 2), kw)

\* length of the longest prefix of s made of characters of cs
RECURSIVE RunLen(_, _)
RunLen(s, cs) == IF s # "" /\ Char(s, 1) \in cs THEN 1 + RunLen(Rest(s, 2), cs) ELSE 0

\* length of the longest prefix of s made of characters outside cs
RECURSIVE TokenLen(_, _)
TokenLen(s, cs) == IF s # "" /\ Char(s, 1) \notin cs THEN 1 + TokenLen(Rest(s, 2), cs) ELSE 0

\* str.split(): the whitespace-separated words
RECURSIVE Split(_)
Split(s) ==
    LET t == LStrip(s, Whitespace) IN
    IF t = "" THEN <<>>
    ELSE LET n == TokenLen(t, Whitespace) IN <<SubSeq(t, 1, n)>> \o Split(Rest(t, n + 1))

\* ' '.join(words)
RECURSIVE Join(_)
Join(ws) ==
    IF ws = <<>> THEN ""
    ELSE IF Len(ws) = 1 THEN ws[1]
    ELSE ws[1] \o " " \o Join(Tail(ws))

\* index of the last occurrence of kw in q, 0 when there is none
LastIndex(kw, q) ==
    LET S == {i \in 1..(Len(q) - Len(kw) + 1) : SubSeq(q, i, i + Len(kw) - 1) = kw} IN
    IF S = {} THEN 0 ELSE CHOOSE i \in S : \A j \in S : j <= i

NumStr(n) == Char(DigitChars, n + 1)

(***************************************************************************)
(* The collaborators of the email assistant: the mailbox (comm.read_emails),*)
(* the language model (llm.generate) and the SMTP send (comm.send_email).   *)
(***************************************************************************)
EmailA == [from_name |-> "Alice", from |-> "alice@x.com", subject |-> "lunch",
           body |-> "are you free", priority |-> "normal"]

EmailB == [from_name |-> "Bob", from |-> "bob@x.com", subject |-> "Re: report",
           body |-> "see attached", priority |-> "high"]

EmailC == [from_name |-> "Charlie", from |-> "charlie@x.com", subject |-> "notes",
           body |-> "as discussed", priority |-> "normal"]

EmailD == [from_name |-> "Dan", from |-> "dan@x.com", subject |-> "hello",
           body |-> "long time", priority |-> "normal"]

\* what read_emails can return: no email, an error entry, or a list of emails
Inboxes == { <<>>,
             <<[error |-> "Email not configured. Set EMAIL_ADDRESS and EMAIL_PASSWORD"]>>,
             <<EmailA>>,
             <<EmailA, EmailB, EmailC, EmailD>> }

\* what llm.generate can do: yield chunks, none at all, or raise after some
LLMStreams == { [chunks |-> <<"Dear Sir, ", "noted. Best regards ">>, raise |-> FALSE, error |-> ""],
                [chunks |-> <<>>, raise |-> FALSE, error |-> ""],
                [chunks |-> <<"Dear ">>, raise |-> TRUE, error |-> "model unavailable"] }

RECURSIVE Concat(_)
Concat(chunks) == IF chunks = <<>> THEN "" ELSE chunks[1] \o Concat(Tail(chunks))

\* what the email assistant makes of a stream: ''.join(parts).strip(), or the exception
LLMOutputs == { [raise |-> g.raise,
                 text |-> IF g.raise THEN g.error ELSE Strip(Concat(g.chunks), Whitespace)]
                : g \in LLMStreams }

\* what any other handler can do: return its text, or raise
HandlerOutcomes == { [raise |-> FALSE, text |-> "done"], [raise |-> TRUE, text |-> "unavailable"] }

\* what send_email can return
SendResults == { [status |-> "sent"], [error |-> "Failed to send email: SMTP down"] }

(***************************************************************************)
(* EmailVoiceAssistant                                                     *)
(***************************************************************************)
check_keywords == {"check email", "read email", "new email", "unread email",
                   "any email", "get email", "show email", "how many email"}

reply_keywords == <<"reply", "respond", "answer that", "reply to", "send reply">>

compose_keywords == {"compose", "send email to", "email", "write email", "new email to"}

confirmation_yes == {"yes", "yeah", "yep", "sure", "okay", "ok", "send it",
                     "confirm", "go ahead", "send"}

confirmation_no == {"no", "nope", "cancel", "don't send", "stop", "nevermind", "never mind"}

Range(f) == {f[i] : i \in DOMAIN f}

\* the state built by __init__
InitState == [mode |-> "idle", active_email |-> None, recent_emails |-> <<>>,
              draft_email |-> None, pending_send |-> FALSE, reply_body |-> None,
              last_command_time |-> None]

\* reset_state: the initial state, stamped with the time of the reset
reset_state == [InitState EXCEPT !.last_command_time = Some("now")]

\* the result of a handler: the new state, the response, the send_email calls made.
\* A handler yields the set of its possible results, one for each thing the
\* collaborators it calls can do.
Result(st, resp, calls) == [state |-> st, response |-> resp, sent |-> calls]

\* email.get('from_name', email.get('from', 'Unknown'))
FromName(e) ==
    IF "from_name" \in DOMAIN e THEN e.from_name
    ELSE IF "from" \in DOMAIN e THEN e.from ELSE "Unknown"

\* the part of s before its first '@'
LocalPart(s) == SubSeq(s, 1, TokenLen(s, {"@"}))

Take(seq, n) == SubSeq(seq, 1, IF Len(seq) < n THEN Len(seq) ELSE n)

RECURSIVE Summaries(_)
Summaries(emails) ==
    IF emails = <<>> THEN ""
    ELSE LET e == emails[1] IN
         (IF e.priority = "high" THEN "Urgent: " ELSE "")
         \o "From " \o (IF e.from_name # "" THEN e.from_name ELSE LocalPart(e.from))
         \o ": " \o e.subject \o ". " \o Summaries(Tail(emails))

CheckResult(st, unread_only, emails) ==
    LET count == Len(emails) IN
    IF emails = <<>> THEN Result(st, "Sorry, No emails found", <<>>)
    ELSE IF "error" \in DOMAIN emails[1]
    THEN Result(st, "Sorry, " \o emails[1].error, <<>>)
    ELSE Result([st EXCEPT !.recent_emails = Take(emails, 3), !.mode = "email_check"],
                "You have " \o NumStr(count) \o " "
                  \o (IF unread_only THEN "unread" ELSE "recent") \o " email"
                  \o (IF count # 1 THEN "s. " ELSE ". ")
                  \o Summaries(Take(emails, 3))
                  \o (IF count > 3 THEN "And " \o NumStr(count - 3) \o " more emails." ELSE ""),
                <<>>)

_check_emails(st, q) ==
    LET unread_only == Contains("unread", q) \/ Contains("new", q) IN
    {CheckResult(st, unread_only, emails) : emails \in Inboxes}

\* the first email of recent whose sender name or address local part occurs in q
RECURSIVE SelectByName(_, _)
SelectByName(recent, q) ==
    IF recent = <<>> THEN None
    ELSE LET e == recent[1]
             from_name == Lower(e.from_name)
             from_addr == Lower(e.from)
         IN
         IF from_name # "" /\ Contains(from_name, q) THEN Some(e)
         ELSE IF from_addr # "" /\ Contains(Lower(LocalPart(from_addr)), q) THEN Some(e)
         ELSE SelectByName(Tail(recent), q)

\* _select_email_from_query that looks for a sender's name before the ordinal words
_select_email_from_query_NameFirst(st, q) ==
    LET recent == st.recent_emails
        named == SelectByName(recent, q)
    IN
    IF named # None THEN named
    ELSE IF Contains("first", q) \/ Contains("latest", q) \/ Contains("newest", q)
       \/ Contains("most recent", q)
    THEN Some(recent[1])
    ELSE IF Contains("second", q) /\ Len(recent) > 1 THEN Some(recent[2])
    ELSE IF Contains("third", q) /\ Len(recent) > 2 THEN Some(recent[3])
    ELSE IF Contains("last", q) THEN Some(recent[Len(recent)])
    ELSE None

_select_email_from_query(st, q) ==
    LET recent == st.recent_emails IN
    IF Contains("first", q) \/ Contains("latest", q) \/ Contains("newest", q)
       \/ Contains("most recent", q)
    THEN Some(recent[1])
    ELSE IF Contains("second", q) /\ Len(recent) > 1 THEN Some(recent[2])
    ELSE IF Contains("third", q) /\ Len(recent) > 2 THEN Some(recent[3])
    ELSE IF Contains("last", q) THEN Some(recent[Len(recent)])
    ELSE SelectByName(recent, q)

\* length of a match of  <w>\s+email\b  at the start of s, 0 when there is none
RefMatchLen(s, w) ==
    IF ~StartsWith(s, w) THEN 0
    ELSE LET ws == RunLen(Rest(s, Len(w) + 1), Whitespace)
             after == Rest(s, Len(w) + ws + 1)
         IN
         IF ws > 0 /\ StartsWith(after, "email")
            /\ (Len(after) = 5 \/ Char(after, 6) \notin WordChars)
         THEN Len(w) + ws + 5 ELSE 0

\* re.sub(r'\b<w>\s+email\b', '', s); prevIsWord: the character before s is a word character
RECURSIVE SubRef(_, _, _)
SubRef(s, w, prevIsWord) ==
    IF s = "" THEN ""
    ELSE LET n == IF prevIsWord THEN 0 ELSE RefMatchLen(s, w) IN
         IF n > 0 THEN SubRef(Rest(s, n + 1), w, TRUE)
         ELSE Char(s, 1) \o SubRef(Rest(s, 2), w, Char(s, 1) \in WordChars)

\* length of a match of  to\s+\w+@[\w\.]+\b  at the start of s, 0 when there is none
AddrMatchLen(s) ==
    IF ~StartsWith(s, "to") THEN 0
    ELSE LET ws == RunLen(Rest(s, 3), Whitespace)
             a == Rest(s, 3 + ws)
             n1 == RunLen(a, WordChars)
             b == Rest(a, n1 + 1)
             c == Rest(b, 2)
             run == SubSeq(c, 1, RunLen(c, WordChars \cup {"."}))
             trimmed == RStrip(run, {"."})
         IN
         IF ws > 0 /\ n1 > 0 /\ StartsWith(b, "@") /\ trimmed # ""
         THEN 2 + ws + n1 + 1 + Len(trimmed) ELSE 0

\* re.sub(r'\bto\s+\w+@[\w\.]+\b', '', s)
RECURSIVE SubAddr(_, _)
SubAddr(s, prevIsWord) ==
    IF s = "" THEN ""
    ELSE LET n == IF prevIsWord THEN 0 ELSE AddrMatchLen(s) IN
         IF n > 0 THEN SubAddr(Rest(s, n + 1), TRUE)
         ELSE Char(s, 1) \o SubAddr(Rest(s, 2), Char(s, 1) \in WordChars)

RECURSIVE RemoveAll(_, _)
RemoveAll(s, kws) == IF kws = <<>> THEN s ELSE RemoveAll(Remove(s, kws[1]), Tail(kws))

_extract_reply_content(q) ==
    LET c1 == RemoveAll(q, reply_keywords)
        c2 == SubRef(c1, "that", FALSE)
        c3 == SubRef(c2, "the", FALSE)
        c4 == SubAddr(c3, FALSE)
        content == Strip(c4, {" ", ",", ".", ":", ";", "!", "?", "t", "o"})
    IN IF Len(content) > 5 THEN Some(content) ELSE None

\* ReplyResult that asks for confirmation without storing the reply
ReplyResult_NoBody(st, llm) ==
    IF llm.raise
    THEN Result(st, "Sorry, I had trouble generating the reply: " \o llm.text, <<>>)
    ELSE Result([st EXCEPT !.pending_send = TRUE],
                "I've prepared this reply: " \o llm.text
                  \o ". Should I send it? Say yes to send or no to cancel.",
                <<>>)

ReplyResult(st, llm) ==
    IF llm.raise
    THEN Result(st, "Sorry, I had trouble generating the reply: " \o llm.text, <<>>)
    ELSE Result([st EXCEPT !.reply_body = Some(llm.text), !.pending_send = TRUE],
                "I've prepared this reply: " \o llm.text
                  \o ". Should I send it? Say yes to send or no to cancel.",
                <<>>)

_generate_reply(st, casual_message, email_data) == {ReplyResult(st, llm) : llm \in LLMOutputs}

RECURSIVE JoinNames(_)
JoinNames(emails) ==
    IF emails = <<>> THEN ""
    ELSE IF Len(emails) = 1 THEN FromName(emails[1])
    ELSE FromName(emails[1]) \o ", " \o JoinNames(Tail(emails))

\* _reply_to_email that replies to the first email when the request selects none
_reply_to_email_TakesFirst(st, q) ==
    IF st.recent_emails = <<>>
    THEN {Result(st, "I don't have any recent emails loaded. Say 'check emails' first.", <<>>)}
    ELSE
    LET selected == _select_email_from_query(st, q) IN
    IF selected = None /\ Len(st.recent_emails) > 3
    THEN {Result(st, "Which email? I have emails from " \o JoinNames(st.recent_emails)
                      \o ". Say 'reply to' followed by the name.", <<>>)}
    ELSE
    LET email_to_reply == IF selected = None THEN st.recent_emails[1] ELSE Val(selected)
        st1 == [st EXCEPT !.active_email = Some(email_to_reply), !.mode = "email_reply"]
        reply_content == _extract_reply_content(q)
    IN
    IF reply_content # None
    THEN _generate_reply(st1, Val(reply_content), email_to_reply)
    ELSE {Result(st1, "What would you like to say to " \o FromName(email_to_reply) \o "?", <<>>)}

_reply_to_email(st, q) ==
    IF st.recent_emails = <<>>
    THEN {Result(st, "I don't have any recent emails loaded. Say 'check emails' first.", <<>>)}
    ELSE
    LET selected == _select_email_from_query(st, q) IN
    IF selected = None /\ Len(st.recent_emails) > 1
    THEN {Result(st, "Which email? I have emails from " \o JoinNames(st.recent_emails)
                      \o ". Say 'reply to' followed by the name.", <<>>)}
    ELSE
    LET email_to_reply == IF selected = None THEN st.recent_emails[1] ELSE Val(selected)
        st1 == [st EXCEPT !.active_email = Some(email_to_reply), !.mode = "email_reply"]
        reply_content == _extract_reply_content(q)
    IN
    IF reply_content # None
    THEN _generate_reply(st1, Val(reply_content), email_to_reply)
    ELSE {Result(st1, "What would you like to say to " \o FromName(email_to_reply) \o "?", <<>>)}

LostContext == "Sorry, I lost the email context. Let's start over."

\* the end of _send_reply, for one result of comm.send_email
SendResult(st, email_data, call, result) ==
    IF "status" \in DOMAIN result /\ result.status = "sent"
    THEN Result(reset_state, "Email sent to " \o FromName(email_data) \o "!", <<call>>)
    ELSE Result(st, "Sorry, the email failed to send: " \o result.error, <<call>>)

_send_reply(st) ==
    IF st.active_email = None \/ st.reply_body = None \/ st.reply_body = Some("")
    THEN {Result(st, LostContext, <<>>)}
    ELSE
    LET email_data == Val(st.active_email)
        to_address == email_data.from
        subject == IF StartsWith(Lower(email_data.subject), "re:")
                   THEN email_data.subject ELSE "Re: " \o email_data.subject
        call == [to |-> to_address, subject |-> subject, body |-> Val(st.reply_body)]
    IN
    {SendResult(st, email_data, call, result) : result \in SendResults}

IsYes(q) == AnyIn(confirmation_yes, q)

IsNo(q) == AnyIn(confirmation_no, q)

Reprompt == "I didn't catch that. Say yes to send or no to cancel."

Cancelled == "Okay, I've cancelled the email. What else can I help with?"

_handle_confirmation(st, q) ==
    IF IsYes(q) THEN _send_reply(st)
    ELSE IF IsNo(q) THEN {Result(reset_state, Cancelled, <<>>)}
    ELSE {Result(st, Reprompt, <<>>)}

\* [^\s]+@[^\s]+ matches the whole token t
IsAddress(t) == \E j \in 2..(Len(t) - 1) : Char(t, j) = "@"

\* group 1 of  (?:email|send)\s+(?:to\s+)?([^\s]+@[^\s]+)  matched at position i of q
RecipientAt(q, i) ==
    LET s == Rest(q, i)
        kwlen == IF StartsWith(s, "email") THEN 5 ELSE IF StartsWith(s, "send") THEN 4 ELSE 0
        a == Rest(s, kwlen + 1)
        ws == RunLen(a, Whitespace)
        b == Rest(a, ws + 1)
        tok1 == SubSeq(b, 1, TokenLen(b, Whitespace))
        c0 == Rest(b, 3)
        ws2 == RunLen(c0, Whitespace)
        c == Rest(c0, ws2 + 1)
        tok2 == SubSeq(c, 1, TokenLen(c, Whitespace))
    IN
    IF kwlen = 0 \/ ws = 0 THEN None
    ELSE IF StartsWith(b, "to") /\ ws2 > 0 /\ IsAddress(tok2) THEN Some(tok2)
    ELSE IF IsAddress(tok1) THEN Some(tok1)
    ELSE None

\* re.search: the leftmost match
ComposeRecipient(q) ==
    LET found == {p \in {<<i, RecipientAt(q, i)>> : i \in 1..Len(q)} : p[2] # None} IN
    IF found = {} THEN None ELSE (CHOOSE p \in found : \A o \in found : p[1] <= o[1])[2]

_extract_subject_from_content(content) ==
    LET subject == Join(Take(Split(content), 5)) IN
    IF Len(subject) > 50 THEN SubSeq(subject, 1, 47) \o "..." ELSE subject

ComposeResult(st, recipient, content, llm) ==
    IF llm.raise
    THEN Result(st, "Sorry, I had trouble composing the email: " \o llm.text, <<>>)
    ELSE Result([st EXCEPT !.draft_email =
                               Some([to |-> recipient,
                                     subject |-> _extract_subject_from_content(content),
                                     body |-> llm.text]),
                           !.pending_send = TRUE],
                "I've prepared this email to " \o recipient \o ": " \o llm.text
                  \o ". Should I send it?", <<>>)

AskRecipient == "Who would you like to email? Please include their email address."

\* _compose_email that drops the draft when it asks for the recipient
_compose_email_Forgets(st, q) ==
    LET match == ComposeRecipient(q) IN
    IF match = None THEN {Result([st EXCEPT !.draft_email = None], AskRecipient, <<>>)}
    ELSE
    LET recipient == Val(match)
        content == Strip(Rest(q, LastIndex(recipient, q) + Len(recipient)),
                         {" ", ",", ".", ":", ";", "!", "?"})
    IN
    IF Len(content) < 5
    THEN {Result([st EXCEPT !.draft_email = Some([to |-> recipient])],
                 "What would you like to say to " \o recipient \o "?", <<>>)}
    ELSE {ComposeResult(st, recipient, content, llm) : llm \in LLMOutputs}

_compose_email(st, q) ==
    LET match == ComposeRecipient(q) IN
    IF match = None THEN {Result(st, AskRecipient, <<>>)}
    ELSE
    LET recipient == Val(match)
        content == Strip(Rest(q, LastIndex(recipient, q) + Len(recipient)),
                         {" ", ",", ".", ":", ";", "!", "?"})
    IN
    IF Len(content) < 5
    THEN {Result([st EXCEPT !.draft_email = Some([to |-> recipient])],
                 "What would you like to say to " \o recipient \o "?", <<>>)}
    ELSE {ComposeResult(st, recipient, content, llm) : llm \in LLMOutputs}

_handle_email_selection(st, q) ==
    LET email == _select_email_from_query(st, q) IN
    IF email # None
    THEN {Result([st EXCEPT !.active_email = email],
                 "Email from " \o FromName(Val(email)) \o ". Subject: " \o Val(email).subject
                   \o ". Message: " \o Val(email).body \o ". Would you like to reply?", <<>>)}
    ELSE {Result(st, "I couldn't find that email. Try saying 'first email' or 'email from [name]'.",
                 <<>>)}

_handle_reply_content(st, q) ==
    IF st.active_email = None
    THEN {Result(st, "I don't have an email selected. Say 'check emails' first.", <<>>)}
    ELSE _generate_reply(st, q, Val(st.active_email))

NotSure == "I'm not sure what you want me to do. Try saying 'check emails' or 'reply to that email'."

\* process_voice_command that looks for a check command before a pending confirmation
process_voice_command_CheckFirst(st, q0) ==
    LET query_lower == Strip(Lower(q0), Whitespace) IN
    IF AnyIn(check_keywords, query_lower) THEN _check_emails(st, query_lower)
    ELSE IF st.pending_send THEN _handle_confirmation(st, query_lower)
    ELSE IF AnyIn(Range(reply_keywords), query_lower) THEN _reply_to_email(st, query_lower)
    ELSE IF AnyIn(compose_keywords, query_lower) THEN _compose_email(st, query_lower)
    ELSE IF st.mode = "email_check" THEN _handle_email_selection(st, query_lower)
    ELSE IF st.mode = "email_reply" THEN _handle_reply_content(st, query_lower)
    ELSE {Result(st, NotSure, <<>>)}

process_voice_command(st, q0) ==
    LET query_lower == Strip(Lower(q0), Whitespace) IN
    IF st.pending_send THEN _handle_confirmation(st, query_lower)
    ELSE IF AnyIn(check_keywords, query_lower) THEN _check_emails(st, query_lower)
    ELSE IF AnyIn(Range(reply_keywords), query_lower) THEN _reply_to_email(st, query_lower)
    ELSE IF AnyIn(compose_keywords, query_lower) THEN _compose_email(st, query_lower)
    ELSE IF st.mode = "email_check" THEN _handle_email_selection(st, query_lower)
    ELSE IF st.mode = "email_reply" THEN _handle_reply_content(st, query_lower)
    ELSE {Result(st, NotSure, <<>>)}

(***************************************************************************)
(* SourceSelector.classify_intent                                          *)
(***************************************************************************)
youtube_music_keywords ==
    { "play music", "play song", "play track", "play artist", "search music",
      "search song", "find song", "find music", "pause music", "pause song",
      "resume music", "continue music", "next song", "previous song", "skip song",
      "skip track", "volume up", "volume down", "set volume", "increase volume",
      "decrease volume", "add to queue", "clear queue", "shuffle queue", "show queue",
      "view queue", "create playlist", "show playlists", "my playlists",
      "list playlists", "recommend music", "music suggestions", "suggest songs",
      "happy music", "sad music", "workout music", "chill music", "focus music",
      "energetic music", "relaxed music", "party music", "what's playing",
      "current song", "music status", "now playing" }

email_voice_keywords ==
    { "check email", "read email", "new email", "unread email", "any email", "reply",
      "reply to", "send reply", "answer email", "respond to", "compose email",
      "send email to", "write email", "how many email" }

communication_keywords ==
    { "priority email", "urgent email", "important email", "summarize email",
      "email summary", "action item", "extract action", "send telegram",
      "telegram message", "send sms", "text message", "notification", "notify me",
      "send notification", "mark as read", "mark email", "auto reply",
      "automatic reply" }

translation_keywords ==
    { "translate", "translation", "what language is", "detect language", "say in",
      "how do you say", "spanish for", "french for", "german for" }

task_prediction_keywords ==
    { "predict next task", "what should i do next", "suggest task",
      "optimize schedule", "optimize my schedule", "improve schedule" }

doc_organization_keywords ==
    { "organize documents", "organize files by date", "organize files by type",
      "process csv", "analyze csv", "analyse csv", "generate report", "create report" }

screen_time_keywords ==
    { "screen time", "track screen time", "how long have i worked", "daily report",
      "weekly report", "take a break", "break suggestion" }

advanced_desktop_keywords ==
    { "screenshot", "capture screen", "record screen", "start recording",
      "organize downloads", "clean downloads", "list windows", "show windows",
      "focus window", "switch to window", "run macro", "execute macro",
      "create folder", "make directory", "delete file", "move file" }

desktop_patterns ==
    { "open ", "launch ", "start ", "close ", "run " }

weather_words ==
    { "weather", "temperature", "forecast", "rain", "sunny", "climate", "hot", "cold" }

\* the two non-ASCII indicators of the source are left out: utterances are ASCII
math_indicators ==
    { "+", "-", "*", "/", "x", "calculate", "compute", "math" }

number_words ==
    { "plus", "minus", "times", "divided", "multiply", "add", "subtract" }

wiki_patterns ==
    { "who is ", "tell me about ", "information about " }

desktop_indicators ==
    { "open", "launch", "start", "close" }

advanced_desktop_indicators ==
    { "take screenshot", "organize downloads", "lock computer", "lock device" }

AnyStartsWith(ps, q) == \E p \in ps : StartsWith(q, p)

\* ' at ' in q or ' pm' in q or ' am' in q
HasClock(q) == Contains(" at ", q) \/ Contains(" pm", q) \/ Contains(" am", q)

\* ... or ' tomorrow' in q or ' in ' in q
HasWhen(q) == HasClock(q) \/ Contains(" tomorrow", q) \/ Contains(" in ", q)

schedule_patterns(q) ==
    \/ Contains("remind me to", q) /\ HasWhen(q)
    \/ StartsWith(q, "remind me to") /\ ~HasWhen(q)
    \/ Contains("schedule", q) /\ HasClock(q)
    \/ Contains("set alarm", q)
    \/ Contains("set reminder", q) /\ HasClock(q)

\* ClassifyRules with the weather rule tried first
ClassifyRules_WeatherFirst(query, in_conversation) ==
    LET query_lower == Strip(Lower(query), Whitespace) IN
    IF AnyIn(weather_words, query_lower) THEN "weather"
    ELSE IF Contains(" in ", query_lower)
       /\ (Contains("second", query_lower) \/ Contains("minute", query_lower)
           \/ Contains("hour", query_lower))
       /\ AnyIn({"open", "launch", "start"}, query_lower)
    THEN "schedule"
    ELSE IF Contains(" at ", query_lower)
            /\ (Contains(" pm", query_lower) \/ Contains(" am", query_lower))
            /\ AnyIn({"open", "launch", "start"}, query_lower)
    THEN "schedule"
    ELSE IF StartsWith(query_lower, "play ") /\ ~AnyIn({"video", "movie", "game"}, query_lower)
    THEN "youtube_music"
    ELSE IF AnyIn(youtube_music_keywords, query_lower) THEN "youtube_music"
    ELSE IF AnyIn(email_voice_keywords, query_lower)
    THEN (IF in_conversation THEN "email_voice" ELSE "email_voice")
    ELSE IF AnyIn(communication_keywords, query_lower) THEN "communication"
    ELSE IF AnyIn(translation_keywords, query_lower) THEN "translation"
    ELSE IF AnyIn(task_prediction_keywords, query_lower) THEN "productivity_ai"
    ELSE IF Contains("summarize", query_lower) \/ Contains("summarise", query_lower)
    THEN "document_processor"
    ELSE IF AnyIn(doc_organization_keywords, query_lower) THEN "document_processor"
    ELSE IF AnyIn(screen_time_keywords, query_lower) THEN "screen_time_tracker"
    ELSE IF AnyIn(advanced_desktop_keywords, query_lower) THEN "advanced_desktop"
    ELSE IF AnyStartsWith(desktop_patterns, query_lower) THEN "desktop"
    ELSE IF AnyIn(weather_words, query_lower) THEN "weather"
    ELSE IF AnyIn(math_indicators, query_lower) \/ AnyIn(number_words, query_lower) THEN "llm"
    ELSE IF AnyStartsWith(wiki_patterns, query_lower) /\ Len(Split(query_lower)) >= 3
    THEN "wikipedia"
    ELSE IF schedule_patterns(query_lower) THEN "schedule"
    ELSE IF AnyIn(desktop_indicators, query_lower) THEN "desktop"
    ELSE IF AnyIn(advanced_desktop_indicators, query_lower) THEN "advanced_desktop"
    ELSE "llm"

\* the rules of classify_intent; in_conversation is what the email rule reads of the
\* email assistant's state: state['mode'] != 'idle' or state['pending_send']
ClassifyRules(query, in_conversation) ==
    LET query_lower == Strip(Lower(query), Whitespace) IN
    IF Contains(" in ", query_lower)
       /\ (Contains("second", query_lower) \/ Contains("minute", query_lower)
           \/ Contains("hour", query_lower))
       /\ AnyIn({"open", "launch", "start"}, query_lower)
    THEN "schedule"
    ELSE IF Contains(" at ", query_lower)
            /\ (Contains(" pm", query_lower) \/ Contains(" am", query_lower))
            /\ AnyIn({"open", "launch", "start"}, query_lower)
    THEN "schedule"
    ELSE IF StartsWith(query_lower, "play ") /\ ~AnyIn({"video", "movie", "game"}, query_lower)
    THEN "youtube_music"
    ELSE IF AnyIn(youtube_music_keywords, query_lower) THEN "youtube_music"
    ELSE IF AnyIn(email_voice_keywords, query_lower)
    THEN (IF in_conversation THEN "email_voice" ELSE "email_voice")
    ELSE IF AnyIn(communication_keywords, query_lower) THEN "communication"
    ELSE IF AnyIn(translation_keywords, query_lower) THEN "translation"
    ELSE IF AnyIn(task_prediction_keywords, query_lower) THEN "productivity_ai"
    ELSE IF Contains("summarize", query_lower) \/ Contains("summarise", query_lower)
    THEN "document_processor"
    ELSE IF AnyIn(doc_organization_keywords, query_lower) THEN "document_processor"
    ELSE IF AnyIn(screen_time_keywords, query_lower) THEN "screen_time_tracker"
    ELSE IF AnyIn(advanced_desktop_keywords, query_lower) THEN "advanced_desktop"
    ELSE IF AnyStartsWith(desktop_patterns, query_lower) THEN "desktop"
    ELSE IF AnyIn(weather_words, query_lower) THEN "weather"
    ELSE IF AnyIn(math_indicators, query_lower) \/ AnyIn(number_words, query_lower) THEN "llm"
    ELSE IF AnyStartsWith(wiki_patterns, query_lower) /\ Len(Split(query_lower)) >= 3
    THEN "wikipedia"
    ELSE IF schedule_patterns(query_lower) THEN "schedule"
    ELSE IF AnyIn(desktop_indicators, query_lower) THEN "desktop"
    ELSE IF AnyIn(advanced_desktop_indicators, query_lower) THEN "advanced_desktop"
    ELSE "llm"

\* the utterances of the sessions below
EmailUtterances ==
    { "Check emails", "reply to alice", "reply to bob i will be late",
      "tell her i will be late", "yes", "no", "don't send", "send reply", "maybe later",
      "send email to dan@x.com see you at lunch", "email dan@x.com" }

RouterUtterances == EmailUtterances \cup {"hi"}

\* the utterances of a session with reminders, timed commands and other intents
SessionUtterances ==
    { "remind me to call mom", "remind me to fix the bike", "remind me to call mom at 25:00",
      "at 5 pm", "in 10 seconds", "in 0 seconds", "at 25:00", "cancel", "hi", "Bye ", "yes",
      "Check emails", "open notepad", "open notepad in 10 seconds", "open notepad at 5 pm",
      "open notepad at 5pm", "open weather app", "play weather report",
      "is it cold at the start", "who is alan turing", "what is 5 plus 5",
      "who is max planck", "who is" }

\* the utterances of a session of replies and new emails
ReplyUtterances ==
    { "Check emails", "reply to the first one", "reply to the latest one",
      "reply to the most recent one", "reply to the second one", "reply to the third one",
      "reply to the last one", "reply to charlie first", "reply to alice", "reply to charlie",
      "send reply", "the first one", "tell her i will be late", "yes", "no",
      "write email to dan", "compose", "email dan@x.com" }

KnownUtterances ==
    EmailUtterances \cup RouterUtterances \cup SessionUtterances \cup ReplyUtterances

\* the rules give the same answer whenever they are asked the same question: the
\* answers for the utterances of the sessions are worked out once
IntentMemo == [u \in KnownUtterances, c \in BOOLEAN |-> ClassifyRules(u, c)]

\* classify_intent that gives the turn to the email assistant while it is in a conversation
classify_intent_ConversationFirst(query, st) ==
    IF st.mode # "idle" \/ st.pending_send THEN "email_voice"
    ELSE IF query \in KnownUtterances THEN IntentMemo[query, FALSE]
    ELSE ClassifyRules(query, FALSE)

\* st is the email assistant's state
classify_intent(query, st) ==
    IF query \in KnownUtterances
    THEN IntentMemo[query, st.mode # "idle" \/ st.pending_send]
    ELSE ClassifyRules(query, st.mode # "idle" \/ st.pending_send)

\* the fast response cache built by __init__
fast_responses ==
    ("hi" :> "Hello! I'm Orbit.")
    @@ ("hello" :> "Hi there!")
    @@ ("how are you" :> "I'm working perfectly!")
    @@ ("what can you do" :> "I can search Wikipedia, check weather, open apps, and more!")
    @@ ("thanks" :> "You're welcome!")
    @@ ("thank you" :> "Happy to help!")
    @@ ("bye" :> "Goodbye!")
    @@ ("what is ai" :> "AI is artificial intelligence - computer systems that can learn.")
    @@ ("what is artificial intelligence" :> "Computer systems that can perform tasks requiring human intelligence.")

(***************************************************************************)
(* ScheduleAction                                                          *)
(***************************************************************************)
Digits == CharsOf(DigitChars)

DigitVal(c) == (CHOOSE k \in 1..10 : Char(DigitChars, k) = c) - 1

RECURSIVE ParseInt(_)
ParseInt(s) ==
    IF s = "" THEN 0 ELSE 10 * ParseInt(SubSeq(s, 1, Len(s) - 1)) + DigitVal(Char(s, Len(s)))

RECURSIVE IntStr(_)
IntStr(n) == IF n < 10 THEN NumStr(n) ELSE IntStr(n \div 10) \o NumStr(n % 10)

\* what _extract_time gives: None, a datetime, or the ValueError of datetime.replace
NoTime == [tag |-> "none", kind |-> "", hour |-> 0, minute |-> 0, amount |-> 0, unit |-> ""]

BadTime == [NoTime EXCEPT !.tag = "raise"]

ClockTime(h, m) == [NoTime EXCEPT !.tag = "time", !.kind = "at", !.hour = h, !.minute = m]

RelTime(n, u) == [NoTime EXCEPT !.tag = "time", !.kind = "in", !.amount = n, !.unit = u]

Tomorrow9 == [NoTime EXCEPT !.tag = "time", !.kind = "tomorrow", !.hour = 9]

\* a match of  at\s+(\d{1,2})\s*(?::(\d{2}))?\s*(am|pm)  at the start of s
ClockAt(s) ==
    LET ws == RunLen(Rest(s, 3), Whitespace)
        a == Rest(s, 3 + ws)
        d == RunLen(a, Digits)
        b == LStrip(Rest(a, d + 1), Whitespace)
        hasMin == StartsWith(b, ":") /\ RunLen(Rest(b, 2), Digits) >= 2
        c == IF hasMin THEN LStrip(Rest(b, 4), Whitespace) ELSE b
    IN
    IF StartsWith(s, "at") /\ ws > 0 /\ d \in {1, 2}
       /\ (StartsWith(c, "am") \/ StartsWith(c, "pm"))
    THEN Some([hour |-> ParseInt(SubSeq(a, 1, d)),
               minute |-> IF hasMin THEN ParseInt(SubSeq(b, 2, 3)) ELSE 0,
               meridiem |-> SubSeq(c, 1, 2)])
    ELSE None

\* a match of  at\s+(\d{1,2}):(\d{2})  at the start of s
ColonAt(s) ==
    LET ws == RunLen(Rest(s, 3), Whitespace)
        a == Rest(s, 3 + ws)
        d == RunLen(a, Digits)
        b == Rest(a, d + 1)
    IN
    IF StartsWith(s, "at") /\ ws > 0 /\ d \in {1, 2}
       /\ StartsWith(b, ":") /\ RunLen(Rest(b, 2), Digits) >= 2
    THEN Some([hour |-> ParseInt(SubSeq(a, 1, d)), minute |-> ParseInt(SubSeq(b, 2, 3)),
               meridiem |-> ""])
    ELSE None

\* a match of  in\s+(\d+)\s+(minute|hour|second)s?  at the start of s
RelAt(s) ==
    LET ws == RunLen(Rest(s, 3), Whitespace)
        a == Rest(s, 3 + ws)
        d == RunLen(a, Digits)
        b == Rest(a, d + 1)
        ws2 == RunLen(b, Whitespace)
        c == Rest(b, ws2 + 1)
        unit == IF StartsWith(c, "minute") THEN "minute"
                ELSE IF StartsWith(c, "hour") THEN "hour"
                ELSE IF StartsWith(c, "second") THEN "second" ELSE ""
    IN
    IF StartsWith(s, "in") /\ ws > 0 /\ d > 0 /\ ws2 > 0 /\ unit # ""
    THEN Some([amount |-> ParseInt(SubSeq(a, 1, d)), unit |-> unit])
    ELSE None

\* re.search: of the matches found at the positions of a string, the leftmost
Leftmost(matches) ==
    LET found == {p \in matches : p[2] # None} IN
    IF found = {} THEN None ELSE (CHOOSE p \in found : \A o \in found : p[1] <= o[1])[2]

SearchClock(cmd) == Leftmost({<<i, ClockAt(Rest(cmd, i))>> : i \in 1..Len(cmd)})

SearchColon(cmd) == Leftmost({<<i, ColonAt(Rest(cmd, i))>> : i \in 1..Len(cmd)})

SearchRel(cmd) == Leftmost({<<i, RelAt(Rest(cmd, i))>> : i \in 1..Len(cmd)})

\* the hour of the day of a matched clock time, then now.replace(hour, minute)
ClockOf(m) ==
    LET hour == IF m.meridiem = "pm" /\ m.hour # 12 THEN m.hour + 12
                ELSE IF m.meridiem = "am" /\ m.hour = 12 THEN 0
                ELSE m.hour
    IN IF hour > 23 \/ m.minute > 59 THEN BadTime ELSE ClockTime(hour, m.minute)

\* the first of the time patterns that matches, then the word 'tomorrow'
TimeOf(command, m1, m2, m3) ==
    IF m1 # None THEN ClockOf(Val(m1))
    ELSE IF m2 # None THEN ClockOf(Val(m2))
    ELSE IF m3 # None THEN RelTime(Val(m3).amount, Val(m3).unit)
    ELSE IF Contains("tomorrow", command) THEN Tomorrow9
    ELSE NoTime

_extract_time(command) ==
    TimeOf(command, SearchClock(command), SearchColon(command), SearchRel(command))

\* the end  (?:\s+at|\s+in|\s+tomorrow|$)  of the task patterns matches at the start of s
TermAt(s) ==
    \/ s = ""
    \/ LET w == RunLen(s, Whitespace)
           r == Rest(s, w + 1)
       IN w > 0 /\ (StartsWith(r, "at") \/ StartsWith(r, "in") \/ StartsWith(r, "tomorrow"))

\* the length of the lazy  .+?  at the start of the non-empty s
LazyLen(s) == CHOOSE n \in 1..Len(s) :
                  /\ TermAt(Rest(s, n + 1))
                  /\ \A m \in 1..(n - 1) : ~TermAt(Rest(s, m + 1))

\* \s+ or \s* (minws whitespace at least) then (.+?) then the end, at the start of s:
\* the whitespace skipped and the length matched, [len |-> 0] when there is no match
WsBody(s, minws) ==
    LET ws == RunLen(s, Whitespace)
        rest == Rest(s, ws + 1)
    IN
    IF ws < minws THEN [skip |-> 0, len |-> 0]
    ELSE IF rest # "" THEN [skip |-> ws, len |-> ws + LazyLen(rest)]
    ELSE IF ws > minws THEN [skip |-> ws - 1, len |-> ws]
    ELSE [skip |-> 0, len |-> 0]

\* group 1 of  ((?:open|launch|start)\s+.+?)(?:...)  matched at the start of s
AppTaskAt(s) ==
    LET kwlen == IF StartsWith(s, "open") THEN 4
                 ELSE IF StartsWith(s, "launch") THEN 6
                 ELSE IF StartsWith(s, "start") THEN 5 ELSE 0
        m == WsBody(Rest(s, kwlen + 1), 1)
    IN IF kwlen > 0 /\ m.len > 0 THEN Some(SubSeq(s, 1, kwlen + m.len)) ELSE None

\* group 1 of  <prefix>\s+(.+?)(?:...)  matched at the start of s
PrefixTaskAt(s, prefix) ==
    LET after == Rest(s, Len(prefix) + 1)
        m == WsBody(after, 1)
    IN IF StartsWith(s, prefix) /\ m.len > 0 THEN Some(SubSeq(after, m.skip + 1, m.len)) ELSE None

\* group 1 of  set (?:a )?reminder (?:to )?\s*(.+?)(?:...)  matched at the start of s
ReminderTaskAt(s) ==
    LET head == IF StartsWith(s, "set a reminder ") THEN 15
                ELSE IF StartsWith(s, "set reminder ") THEN 13 ELSE 0
        after == Rest(s, head + 1)
        withTo == WsBody(Rest(after, 4), 0)
        without == WsBody(after, 0)
    IN
    IF head = 0 THEN None
    ELSE IF StartsWith(after, "to ") /\ withTo.len > 0
    THEN Some(SubSeq(Rest(after, 4), withTo.skip + 1, withTo.len))
    ELSE IF without.len > 0 THEN Some(SubSeq(after, without.skip + 1, without.len))
    ELSE None

\* the task patterns of _extract_task, in the order they are tried
TaskAt(s, k) ==
    IF k = 1 THEN AppTaskAt(s)
    ELSE IF k = 2 THEN PrefixTaskAt(s, "remind me to")
    ELSE IF k = 3 THEN PrefixTaskAt(s, "schedule")
    ELSE ReminderTaskAt(s)

SearchTask(command, k) == Leftmost({<<i, TaskAt(Rest(command, i), k)>> : i \in 1..Len(command)})

\* the first of the patterns k, k + 1, ... that matches gives the task
RECURSIVE FirstTask(_, _)
TaskOf(command, k, match) ==
    IF match # None THEN Strip(Val(match), Whitespace) ELSE FirstTask(command, k + 1)

FirstTask(command, k) == IF k > 4 THEN "" ELSE TaskOf(command, k, SearchTask(command, k))

_extract_task(command) == FirstTask(command, 1)

\* what schedule returns: a string (tag "str"), task data (tag "data"), or it raises
Said(pt, text) == [pending_task |-> pt, tag |-> "str", text |-> text, task |-> "", time |-> NoTime]

Data(pt, task, time) ==
    [pending_task |-> pt, tag |-> "data", text |-> "", task |-> task, time |-> time]

Raised(pt) == [pending_task |-> pt, tag |-> "raise", text |-> "hour must be in 0..23",
               task |-> "", time |-> NoTime]

BadTimePrompt ==
    "I didn't understand that time. Please say something like '5 PM' or 'in 30 minutes'."

\* the regular scheduling of a complete command, the end of schedule
Complete(pt, task, scheduled_time) ==
    IF scheduled_time.tag = "raise" THEN Raised(pt)
    ELSE IF task = ""
    THEN Said(pt, "I couldn't understand what you want me to remind you about.")
    ELSE IF scheduled_time.tag = "none"
    THEN Said(pt, "I understood you want to: '" \o task
                   \o "', but I couldn't determine when. Please specify a time.")
    ELSE Data(pt, task, scheduled_time)

\* SchedulePending that forgets the pending task when the command gives no time
SchedulePending_Drops(pt, time) ==
    IF time.tag = "raise" THEN Raised(pt)
    ELSE IF time.tag = "time" THEN Data(None, Val(pt), time)
    ELSE Said(None, BadTimePrompt)

\* a pending task and the time the command gives for it
SchedulePending(pt, time) ==
    IF time.tag = "raise" THEN Raised(pt)
    ELSE IF time.tag = "time" THEN Data(None, Val(pt), time)
    ELSE Said(pt, BadTimePrompt)

\* step 1: 'remind me to <task>' is pending when the command gives no time; every
\* other command is scheduled as a complete one
ScheduleNew(pt, command_lower, task, time) ==
    IF StartsWith(command_lower, "remind me to") /\ task # "" /\ time.tag = "raise"
    THEN Raised(pt)
    ELSE IF StartsWith(command_lower, "remind me to") /\ task # "" /\ time.tag = "none"
    THEN Said(Some(task), "Sure! I'll remind you to " \o task
                           \o ". When would you like me to remind you?")
    ELSE Complete(pt, _extract_task(command_lower), time)

ScheduleLower(pt, command_lower, time) ==
    IF pt # None THEN SchedulePending(pt, time)
    ELSE ScheduleNew(pt, command_lower,
                     Strip(Remove(command_lower, "remind me to"), Whitespace), time)

\* pt is pending_task before the call
schedule(pt, command) == ScheduleLower(pt, Lower(command), _extract_time(Lower(command)))

(***************************************************************************)
(* SourceSelector.process and its handlers                                 *)
(***************************************************************************)
\* strftime of the scheduled time, up to the date
TimeStr(time) ==
    IF time.kind = "in" THEN "now + " \o IntStr(time.amount) \o " " \o time.unit
    ELSE IntStr(time.hour) \o ":" \o IntStr(time.minute)

\* whether time_until.total_seconds() > 0 fails: a relative time of 0 has passed, a
\* clock time may pass between _extract_time and _handle_schedule, others have not
Passed(time) ==
    IF time.kind = "in" THEN {time.amount = 0}
    ELSE IF time.kind = "at" THEN {FALSE, TRUE}
    ELSE {FALSE}

\* the results of _handle_schedule: the pending task, the text returned, the timer
\* threads started, and whether it raised
HandleSchedule(r, passed) ==
    IF r.tag = "raise"
    THEN [pending_task |-> r.pending_task, text |-> r.text, started |-> <<>>, raise |-> TRUE]
    ELSE IF r.tag = "str"
    THEN [pending_task |-> r.pending_task, text |-> r.text, started |-> <<>>, raise |-> FALSE]
    ELSE IF ~passed
    THEN [pending_task |-> r.pending_task,
          text |-> "Got it! I'll execute '" \o r.task \o "' at " \o TimeStr(r.time) \o ".",
          started |-> <<r.task>>, raise |-> FALSE]
    ELSE [pending_task |-> r.pending_task,
          text |-> "That time has already passed. Please specify a future time.",
          started |-> <<>>, raise |-> FALSE]

ScheduleOutcomes(r) ==
    {HandleSchedule(r, passed) : passed \in (IF r.tag = "data" THEN Passed(r.time) ELSE {FALSE})}

_handle_schedule(pt, query) == ScheduleOutcomes(schedule(pt, query))

\* the result of a turn of process
Turn(st, pt, started, h, c, chunks, exc, calls) ==
    [state |-> st, pending_task |-> pt, started |-> started, handler |-> h,
     classified |-> c, response |-> chunks, exception |-> exc, sent |-> calls]

\* the pending schedule claims the turn, outside the try block
PendingTurn(st, r) ==
    IF r.raise
    THEN Turn(st, r.pending_task, r.started, "schedule", FALSE, <<>>, Some(r.text), <<>>)
    ELSE Turn(st, r.pending_task, r.started, "schedule", FALSE, <<r.text>>, None, <<>>)

\* the schedule handler inside the try block
ScheduleTurn(st, r) ==
    Turn(st, r.pending_task, r.started, "schedule", TRUE,
         <<IF r.raise THEN "Error: " \o r.text ELSE r.text>>, None, <<>>)

EmailTurn(pt, r, c) == Turn(r.state, pt, <<>>, "email_voice", c, <<r.response>>, None, r.sent)

LLMTurn(st, pt, g) ==
    Turn(st, pt, <<>>, "llm", TRUE,
         IF g.raise THEN Append(g.chunks, "Error: " \o g.error) ELSE g.chunks, None, <<>>)

OtherTurn(st, pt, intent, o) ==
    Turn(st, pt, <<>>, intent, TRUE,
         <<IF o.raise THEN "Error: " \o o.text ELSE o.text>>, None, <<>>)

Dispatch(st, pt, query, intent) ==
    IF intent = "email_voice"
    THEN {EmailTurn(pt, r, TRUE) : r \in process_voice_command(st, query)}
    ELSE IF intent = "schedule"
    THEN {ScheduleTurn(st, r) : r \in _handle_schedule(pt, query)}
    ELSE IF intent = "llm" THEN {LLMTurn(st, pt, g) : g \in LLMStreams}
    ELSE {OtherTurn(st, pt, intent, o) : o \in HandlerOutcomes}

FastTurn(st, pt, reply) == Turn(st, pt, <<>>, "fast_responses", FALSE, <<reply>>, None, <<>>)

\* ProcessLower that looks into the fast cache before the pending task
ProcessLower_FastFirst(st, pt, query, query_lower) ==
    IF query_lower \in DOMAIN fast_responses
    THEN {FastTurn(st, pt, fast_responses[query_lower])}
    ELSE IF pt # None THEN {PendingTurn(st, r) : r \in _handle_schedule(pt, query)}
    ELSE Dispatch(st, pt, query, classify_intent(query, st))

ProcessLower(st, pt, query, query_lower) ==
    IF pt # None THEN {PendingTurn(st, r) : r \in _handle_schedule(pt, query)}
    ELSE IF query_lower \in DOMAIN fast_responses
    THEN {FastTurn(st, pt, fast_responses[query_lower])}
    ELSE Dispatch(st, pt, query, classify_intent(query, st))

\* process that looks up the utterance as it was typed
process_Raw(st, pt, query) == ProcessLower(st, pt, query, query)

\* st and pt are the email assistant's state and the pending task before the turn
process(st, pt, query) == ProcessLower(st, pt, query, Strip(Lower(query), Whitespace))

(***************************************************************************)
(* The session: utterances arrive one at a time, at the router              *)
(* (SourceSelector.process) or at the email assistant itself                *)
(* (EmailVoiceAssistant.process_voice_command); timer threads run on their  *)
(* own.                                                                     *)
(***************************************************************************)
Init ==
    /\ state = InitState
    /\ pending_task = None
    /\ timers = <<>>
    /\ utterance = ""
    /\ handler = "none"
    /\ classified = FALSE
    /\ response = <<>>
    /\ exception = None
    /\ sent = <<>>
    /\ sends = 0
    /\ cancelled = FALSE
    /\ added = <<>>
    /\ printed = None
    /\ scheduled_emails = <<>>
    /\ now = 0
    /\ returned = None
    /\ queue = <<>>
    /\ queue_index = -1
    /\ repeat_mode = "off"
    /\ current_track = None
    /\ is_playing = FALSE
    /\ max_queue_size \in MaxQueueSizes

\* the send_email calls counted against the draft pending after the turn
SendsAfter(r) ==
    IF r.state.pending_send /\ ~state.pending_send THEN 0 ELSE sends + Len(r.sent)

\* the effect of one turn with result r; c: the user cancelled it; msgs: what the caller
\* adds to the conversation memory
Effect(u, r, c, msgs) ==
    /\ SendsAfter(r) <= MaxSends
    /\ Len(timers) + Len(r.started) <= MaxTimers
    /\ state' = r.state
    /\ pending_task' = r.pending_task
    /\ timers' = timers \o r.started
    /\ utterance' = u
    /\ handler' = r.handler
    /\ classified' = r.classified
    /\ response' = r.response
    /\ exception' = r.exception
    /\ sent' = r.sent
    /\ sends' = SendsAfter(r)
    /\ cancelled' = c
    /\ added' = msgs
    /\ printed' = None
    /\ UNCHANGED <<mail, music>>

\* run_text_mode after the last chunk: the utterance and the joined chunks go to the
\* memory; an exception out of the generator skips this
add_message(u, r) ==
    IF r.exception # None THEN <<>>
    ELSE << <<"user", u>>, <<"assistant", Concat(r.response)>> >>

\* a turn of the loop that runs to its end
Apply(u, r) == Effect(u, r, FALSE, add_message(u, r))

\* SourceSelector.process(u)
Process(u) == \E r \in process(state, pending_task, u) : Apply(u, r)

\* run_text_mode: the user presses ESC while the response streams. The key is looked
\* for when chunk k has arrived, so the generator has run up to its k-th yield; the
\* chunks before it were printed, chunk k and the rest are dropped
Interrupted(r, k) == [r EXCEPT !.response = SubSeq(r.response, 1, k - 1)]

CancelledTurn(u) ==
    \E r \in process(state, pending_task, u) :
        /\ r.exception = None
        /\ \E k \in 1..Len(r.response) : Effect(u, Interrupted(r, k), TRUE, <<>>)

\* EmailVoiceAssistant.process_voice_command(u), called on the assistant itself
ProcessVoiceCommand(u) ==
    \E r \in process_voice_command(state, u) :
        Effect(u, EmailTurn(pending_task, r, FALSE), FALSE, <<>>)

\* re.search(r'(?:open|launch|start)\s+.+', task): a keyword, whitespace, and one more
\* character on the same line
IsAppTask(task) ==
    \E i \in 1..Len(task) :
        \E kw \in {"open", "launch", "start"} :
            LET rest == Rest(task, i + Len(kw)) IN
            /\ StartsWith(Rest(task, i), kw)
            /\ Len(rest) >= 2
            /\ Char(rest, 1) \in Whitespace
            /\ Char(rest, 2) # "\n"

\* what execute_later prints for the task: the result of desktop.execute, nothing when
\* it raises and the thread dies, or the reminder
execute_later(task) ==
    IF IsAppTask(Lower(task))
    THEN {IF o.raise THEN None ELSE Some("Scheduled task executed! " \o o.text)
            : o \in HandlerOutcomes}
    ELSE {Some("Reminder - " \o task)}

\* TimerFire that gives up the pending task
TimerFire_ClearsPending(i) ==
    /\ i \in 1..Len(timers)
    /\ timers' = SubSeq(timers, 1, i - 1) \o SubSeq(timers, i + 1, Len(timers))
    /\ printed' \in execute_later(timers[i])
    /\ pending_task' = None
    /\ UNCHANGED <<state, utterance, handler, classified, response,
                   exception, sent, sends, cancelled, added, mail, music>>

\* execute_later: the timer thread of task i wakes up, runs the task and prints its
\* result
TimerFire(i) ==
    /\ i \in 1..Len(timers)
    /\ timers' = SubSeq(timers, 1, i - 1) \o SubSeq(timers, i + 1, Len(timers))
    /\ printed' \in execute_later(timers[i])
    /\ UNCHANGED <<state, pending_task, utterance, handler, classified, response,
                   exception, sent, sends, cancelled, added, mail, music>>

\* a session with the email assistant itself
Next == \E u \in EmailUtterances : ProcessVoiceCommand(u)

Spec == Init /\ [][Next]_vars

\* a session of replies and new emails with the email assistant itself
NextReply == \E u \in ReplyUtterances : ProcessVoiceCommand(u)

SpecReply == Init /\ [][NextReply]_vars

\* an email session at the router
NextRouter == \E u \in RouterUtterances : Process(u)

SpecRouter == Init /\ [][NextRouter]_vars

\* a session of run_text_mode: turns at the router, turns the user cancels, and the timer
\* threads
NextSession ==
    \/ \E u \in SessionUtterances : Process(u)
    \/ \E u \in SessionUtterances : CancelledTurn(u)
    \/ \E i \in 1..MaxTimers : TimerFire(i)

SpecSession == Init /\ [][NextSession]_vars

(***************************************************************************)
(* CommunicationService: the scheduled emails                              *)
(***************************************************************************)
\* the arguments of schedule_email in a session
Subjects == {"hello", "report"}

SendAts == {"0m", "1m", "soon"}

\* _parse_schedule_time for a time that is not in ISO format: re.match(r'(\d+)([mhd])')
\* and the time so far from t, in minutes; None when there is no match
_parse_schedule_time(time_str, t) ==
    LET n == RunLen(time_str, Digits)
        unit == IF Len(time_str) > n THEN Char(time_str, n + 1) ELSE ""
        value == ParseInt(SubSeq(time_str, 1, n))
    IN
    IF n = 0 THEN None
    ELSE IF unit = "m" THEN Some(t + value)
    ELSE IF unit = "h" THEN Some(t + 60 * value)
    ELSE IF unit = "d" THEN Some(t + 1440 * value)
    ELSE None

\* the entry schedule_email appends; id stands for the md5 of to, subject and time.time();
\* sent_count counts the send_email calls made for the entry
ScheduledEmail(to, subject, send_time, t) ==
    [id |-> <<to \o subject, t>>, to |-> to, subject |-> subject, send_at |-> send_time,
     status |-> "pending", sent_count |-> 0]

schedule_email(to, subject, send_at) ==
    LET send_time == _parse_schedule_time(Lower(send_at), now) IN
    IF send_time = None
    THEN /\ returned' = Some("error: Invalid time format")
         /\ UNCHANGED <<scheduled_emails, now>>
    ELSE /\ Len(scheduled_emails) < MaxScheduled
         /\ scheduled_emails' =
                Append(scheduled_emails, ScheduledEmail(to, subject, Val(send_time), now))
         /\ returned' = Some("scheduled")
         /\ UNCHANGED now

ScheduleEmail(subject, send_at) ==
    /\ schedule_email("dan@x.com", subject, send_at)
    /\ UNCHANGED <<conversation, music>>

\* the entry after send_email returned result for it
AfterSend(e, result) ==
    [e EXCEPT !.status = IF "status" \in DOMAIN result /\ result.status = "sent"
                         THEN "sent" ELSE "failed",
              !.sent_count = @ + 1]

\* process_scheduled_emails that sends every entry that is due, whatever its status
ProcessScheduledEmails_AnyStatus ==
    /\ \E results \in [1..Len(scheduled_emails) -> SendResults] :
          /\ scheduled_emails' =
                [i \in 1..Len(scheduled_emails) |->
                    IF scheduled_emails[i].send_at <= now
                    THEN AfterSend(scheduled_emails[i], results[i])
                    ELSE scheduled_emails[i]]
          /\ returned' = Some("processed")
    /\ UNCHANGED <<now, conversation, music>>

\* process_scheduled_emails: the pending entries that are due are sent, one send_email
\* call each, and marked sent or failed
ProcessScheduledEmails ==
    /\ \E results \in [1..Len(scheduled_emails) -> SendResults] :
          /\ scheduled_emails' =
                [i \in 1..Len(scheduled_emails) |->
                    IF scheduled_emails[i].status = "pending"
                       /\ scheduled_emails[i].send_at <= now
                    THEN AfterSend(scheduled_emails[i], results[i])
                    ELSE scheduled_emails[i]]
          /\ returned' = Some("processed")
    /\ UNCHANGED <<now, conversation, music>>

\* the first pending entry with the id, 0 when there is none
FirstPending(email_id) ==
    LET found == {i \in 1..Len(scheduled_emails) :
                     /\ scheduled_emails[i].id = email_id
                     /\ scheduled_emails[i].status = "pending"}
    IN IF found = {} THEN 0 ELSE CHOOSE i \in found : \A j \in found : i <= j

cancel_scheduled_email(email_id) ==
    LET i == FirstPending(email_id) IN
    IF i = 0
    THEN /\ returned' = Some("not found or already sent")
         /\ UNCHANGED scheduled_emails
    ELSE /\ scheduled_emails' = [scheduled_emails EXCEPT ![i].status = "cancelled"]
         /\ returned' = Some("cancelled")

CancelScheduledEmail(email_id) ==
    /\ cancel_scheduled_email(email_id)
    /\ UNCHANGED <<now, conversation, music>>

\* a minute passes
Tick ==
    /\ now < MaxNow
    /\ now' = now + 1
    /\ UNCHANGED <<scheduled_emails, returned, conversation, music>>

\* the ids a caller may name: those of the entries, and one of no entry
EmailIds == {scheduled_emails[i].id : i \in 1..Len(scheduled_emails)} \cup {<<"", 0>>}

\* the scheduled emails of a session: scheduled, cancelled, and processed from time to time
NextMail ==
    \/ \E subject \in Subjects, send_at \in SendAts : ScheduleEmail(subject, send_at)
    \/ ProcessScheduledEmails
    \/ \E email_id \in EmailIds : CancelScheduledEmail(email_id)
    \/ Tick

SpecMail == Init /\ [][NextMail]_vars

(***************************************************************************)
(* YouTubeMusicService: the playback queue                                 *)
(***************************************************************************)
RECURSIVE SeqsUpTo(_, _)
SeqsUpTo(S, n) ==
    IF n = 0 THEN {<<>>}
    ELSE LET shorter == SeqsUpTo(S, n - 1) IN
         shorter \cup {Append(q, x) : q \in {t \in shorter : Len(t) = n - 1}, x \in S}

\* what get_playlist may return for a playlist id
Playlists == SeqsUpTo(VideoIds, PlaylistLimit)

\* play_track: the track becomes the current one and plays, unless it has no id
play_track(track_id) ==
    IF track_id = ""
    THEN UNCHANGED <<current_track, is_playing>>
    ELSE /\ current_track' = Some(track_id)
         /\ is_playing' = TRUE

\* next_track: one step forward, or back to the start at the end of a queue repeated
\* as a whole
NextTrack ==
    /\ IF queue = <<>>
       THEN UNCHANGED <<queue_index, current_track, is_playing>>
       ELSE IF queue_index < Len(queue) - 1
       THEN /\ queue_index' = queue_index + 1
            /\ play_track(queue[queue_index + 2])
       ELSE IF repeat_mode = "all"
       THEN /\ queue_index' = 0
            /\ play_track(queue[1])
       ELSE UNCHANGED <<queue_index, current_track, is_playing>>
    /\ UNCHANGED <<queue, repeat_mode, max_queue_size, conversation, mail>>

\* previous_track: one step back, unless at the first track or before it
PreviousTrack ==
    /\ IF queue # <<>> /\ queue_index > 0
       THEN /\ queue_index' = queue_index - 1
            /\ play_track(queue[queue_index])
       ELSE UNCHANGED <<queue_index, current_track, is_playing>>
    /\ UNCHANGED <<queue, repeat_mode, max_queue_size, conversation, mail>>

\* add_to_queue: the track is appended unless the queue is full
AddToQueue(track_id) ==
    /\ IF Len(queue) >= max_queue_size
       THEN UNCHANGED queue
       ELSE queue' = Append(queue, track_id)
    /\ UNCHANGED <<queue_index, repeat_mode, current_track, is_playing, max_queue_size,
                   conversation, mail>>

ClearQueue ==
    /\ queue' = <<>>
    /\ queue_index' = -1
    /\ UNCHANGED <<repeat_mode, current_track, is_playing, max_queue_size,
                   conversation, mail>>

\* the orders random.shuffle may leave a list in
Shuffles(q) == {[i \in 1..Len(q) |-> q[p[i]]] : p \in Permutations(1..Len(q))}

\* shuffle_queue: a queue with tracks is reordered and the index goes to its start
ShuffleQueue ==
    /\ IF queue = <<>>
       THEN UNCHANGED <<queue, queue_index>>
       ELSE /\ queue' \in Shuffles(queue)
            /\ queue_index' = 0
    /\ UNCHANGED <<repeat_mode, current_track, is_playing, max_queue_size,
                   conversation, mail>>

\* play_playlist: the tracks of the playlist replace the queue and the first one plays;
\* nothing happens when the playlist has no tracks
PlayPlaylist(tracks) ==
    /\ IF tracks = <<>>
       THEN UNCHANGED <<queue, queue_index, current_track, is_playing>>
       ELSE /\ queue' = tracks
            /\ queue_index' = 0
            /\ play_track(tracks[1])
    /\ UNCHANGED <<repeat_mode, max_queue_size, conversation, mail>>

\* toggle_repeat: off -> one -> all -> off
ToggleRepeat ==
    /\ repeat_mode' = CASE repeat_mode = "off" -> "one"
                        [] repeat_mode = "one" -> "all"
                        [] OTHER -> "off"
    /\ UNCHANGED <<queue, queue_index, current_track, is_playing, max_queue_size,
                   conversation, mail>>

\* a music player driven by any sequence of its queue operations
NextMusic ==
    \/ \E track_id \in VideoIds : AddToQueue(track_id)
    \/ ClearQueue
    \/ ShuffleQueue
    \/ \E tracks \in Playlists : PlayPlaylist(tracks)
    \/ NextTrack
    \/ PreviousTrack
    \/ ToggleRepeat

SpecMusic == Init /\ [][NextMusic]_vars

(***************************************************************************)
(* Properties                                                              *)
(***************************************************************************)
\* query.lower().strip(), what the handlers match their keywords against
QueryLower(u) == Strip(Lower(u), Whitespace)

\* the conversation state is the idle one: nothing selected, drafted or pending
Idle(st) ==
    /\ st.mode = "idle"
    /\ ~st.pending_send
    /\ st.active_email = None
    /\ st.reply_body = None
    /\ st.draft_email = None

\* the utterances the confirmation handler takes as a yes, and as a no
Affirmative == {u \in KnownUtterances : IsYes(QueryLower(u))}
Negative == {u \in KnownUtterances : IsNo(QueryLower(u))}

\* the utterances that are a word of the negative word set
NegativeWords == {u \in KnownUtterances : QueryLower(u) \in confirmation_no}

\* the last turn called comm.send_email and it reported a failure
SendFailed == sent # <<>> /\ StartsWith(response[1], "Sorry, the email failed to send: ")

\* C1: while the email assistant is not idle or has a confirmation pending, and no
\* schedule is pending, every utterance given to process is handled by the email
\* assistant.
C1_ConversationClaimsTurn ==
    [][((state.mode # "idle" \/ state.pending_send) /\ pending_task = None
        /\ utterance' \in RouterUtterances)
       => handler' = "email_voice"]_vars

\* C2: comm.send_email is called at most once for a draft that is pending
\* confirmation, whatever the utterances that follow and whatever the send reports.
C2_SendAtMostOncePerDraft == sends <= 1

\* C3: comm.send_email is called only in a turn that begins with pending_send true and
\* whose utterance is affirmative; a negative utterance never triggers a send.
C3_SendOnlyOnAffirmative ==
    [][sent' # <<>>
       => /\ state.pending_send
          /\ utterance' \in Affirmative
          /\ utterance' \notin Negative]_vars

\* C4: when comm.send_email reports a failure, the conversation state is reset to idle
\* all the same: the draft is not kept for a retry.
C4_FailedSendResets == SendFailed => Idle(state)

\* C5: an utterance of the negative word set received while pending_send is true
\* discards the draft, resets the state to idle and sends nothing.
C5_NegativeDiscards ==
    [][(state.pending_send /\ handler' = "email_voice"
        /\ utterance' \in NegativeWords)
       => (sent' = <<>> /\ Idle(state'))]_vars

\* C6: 'yes' to a composed draft that is pending confirmation sends the draft to its
\* recipient, once, and leaves the state idle.
C6_ComposedDraftIsSent ==
    [][(/\ state.pending_send
        /\ state.draft_email # None
        /\ handler' = "email_voice"
        /\ utterance' = "yes")
       => (/\ Len(sent') = 1
           /\ sent'[1].to = Val(state.draft_email).to
           /\ Idle(state'))]_vars

\* C7: while pending_send is true, an utterance recognized neither as affirmative nor
\* as negative gets the yes/no re-prompt and leaves the conversation state as it
\* was, whatever keywords it contains.
C7_UnrecognizedReprompts ==
    [][(/\ state.pending_send
        /\ handler' = "email_voice"
        /\ utterance' \in KnownUtterances \ (Affirmative \cup Negative))
       => (state' = state /\ response' = <<Reprompt>> /\ sent' = <<>>)]_vars

\* a reply command was re-prompted while a confirmation was pending
C7_Witness ==
    /\ state.pending_send
    /\ utterance = "reply to alice"
    /\ response = <<Reprompt>>

\* C8: pending_send implies that there is something to send: a draft, or an active
\* email together with a reply body.
C8_PendingHasContent ==
    state.pending_send
    => (state.draft_email # None \/ (state.active_email # None /\ state.reply_body # None))

\* a generated reply is pending confirmation and no draft was composed
C8_Witness ==
    /\ state.pending_send
    /\ state.draft_email = None
    /\ state.reply_body # None

\* C9: pending_send implies that the mode is not idle.
C9_PendingNotIdle == state.pending_send => state.mode # "idle"

\* C10: the outbound draft and the reply referent are never both set.
C10_OneReferent == ~(state.draft_email # None /\ state.active_email # None)

\* a step that is a turn of the session: the timer threads take timers away, turns never do
TurnStep == Len(timers') >= Len(timers)

\* the utterances _extract_time finds a time in, and those it finds none in
ParsedTimes == {u \in KnownUtterances : _extract_time(Lower(u)).tag = "time"}
UnparsedTimes == {u \in KnownUtterances : _extract_time(Lower(u)).tag = "none"}

\* the utterances the fast response cache answers, and its answers
FastKeys == {u \in KnownUtterances : QueryLower(u) \in DOMAIN fast_responses}
FastReply == [u \in FastKeys |-> fast_responses[QueryLower(u)]]

TimePassed == "That time has already passed. Please specify a future time."

\* C11: while a task is pending, every turn goes to the scheduler: no fast cache, no
\* classifier, no other handler; a turn whose utterance holds a time completes the
\* pending task with it and clears the pending task; with no task pending, a turn that
\* the fast cache does not answer is classified.
C11_PendingScheduleClaimsTurn ==
    [][TurnStep =>
        /\ pending_task # None =>
             /\ handler' = "schedule"
             /\ ~classified'
             /\ state' = state
             /\ sent' = <<>>
             /\ (utterance' \in ParsedTimes /\ ~cancelled') =>
                   /\ pending_task' = None
                   /\ \/ timers' = Append(timers, Val(pending_task))
                      \/ timers' = timers /\ response' = <<TimePassed>>
        /\ (pending_task = None /\ utterance' \in KnownUtterances \ FastKeys) => classified'
    ]_vars

\* the pending reminder was completed by a turn that gave its time, and a turn after it
\* was classified
C11_Witness ==
    /\ pending_task = None
    /\ timers = <<"call mom">>
    /\ utterance = "open notepad"
    /\ classified
    /\ handler = "desktop"

\* C12: while a task is pending, an utterance that holds no time gets the time
\* re-prompt and leaves the pending task as it was.
C12_UnparsedTimeKeepsPending ==
    [][(TurnStep /\ pending_task # None /\ utterance' \in UnparsedTimes)
       => /\ pending_task' = pending_task
          /\ timers' = timers
          /\ (cancelled' \/ response' = <<BadTimePrompt>>)]_vars

\* a fast-cache phrase was re-prompted for a time, the reminder still pending
C12_Witness ==
    /\ pending_task = Some("call mom")
    /\ utterance = "hi"
    /\ ~cancelled
    /\ response = <<BadTimePrompt>>

\* C13: a turn that clears the pending task starts the timer of that task and answers
\* the scheduling confirmation: the pending task is never cleared without being scheduled.
C13_ClearedMeansScheduled ==
    [][(TurnStep /\ pending_task # None /\ pending_task' = None)
       => /\ timers' = Append(timers, Val(pending_task))
          /\ (cancelled' \/ StartsWith(response'[1], "Got it! I'll execute '"))]_vars

\* C14: from a state with a schedule pending or an email confirmation pending, the
\* utterance 'cancel' leaves no schedule pending and no confirmation pending, and
\* schedules and sends nothing.
C14_CancelWordEscapes ==
    [][(/\ TurnStep
        /\ pending_task # None \/ state.pending_send
        /\ ~cancelled'
        /\ utterance' = "cancel")
       => /\ pending_task' = None
          /\ ~state'.pending_send
          /\ timers' = timers
          /\ sent' = <<>>]_vars

C16_AlwaysAResponse ==
    (handler # "none" /\ ~cancelled) => (exception = None /\ Len(response) >= 1)

\* C17: a turn the user cancels leaves the email conversation state and the pending
\* schedule as they were before the turn, sends no email and schedules nothing.
C17_CancelledTurnChangesNothing ==
    [][cancelled'
       => /\ state' = state
          /\ pending_task' = pending_task
          /\ timers' = timers
          /\ sent' = <<>>]_vars

\* the rule families of the priority order
TimedDesktopRule(q) ==
    /\ AnyIn({"open", "launch", "start"}, q)
    /\ \/ Contains(" in ", q) /\ AnyIn({"second", "minute", "hour"}, q)
       \/ Contains(" at ", q) /\ AnyIn({" pm", " am"}, q)

MediaRule(q) ==
    \/ StartsWith(q, "play ") /\ ~AnyIn({"video", "movie", "game"}, q)
    \/ AnyIn(youtube_music_keywords, q)

ArithmeticRule(q) == AnyIn(math_indicators, q) \/ AnyIn(number_words, q)

EncyclopediaRule(q) == AnyStartsWith(wiki_patterns, q) /\ Len(Split(q)) >= 3

\* the priority order, highest first: whether the rule matches q, and its intent.
\* desktop_commands: the domain keywords count the commands that begin with a
\* desktop verb ('open ', 'launch ', 'start ', 'close ', 'run ')
PriorityOrder(q, desktop_commands) ==
    << <<TimedDesktopRule(q), "schedule">>,
       <<MediaRule(q), "youtube_music">>,
       <<AnyIn(email_voice_keywords, q), "email_voice">>,
       <<AnyIn(communication_keywords, q), "communication">>,
       <<AnyIn(translation_keywords, q), "translation">>,
       <<AnyIn(task_prediction_keywords, q), "productivity_ai">>,
       <<AnyIn({"summarize", "summarise"}, q), "document_processor">>,
       <<AnyIn(doc_organization_keywords, q), "document_processor">>,
       <<AnyIn(screen_time_keywords, q), "screen_time_tracker">>,
       <<AnyIn(advanced_desktop_keywords, q), "advanced_desktop">>,
       <<desktop_commands /\ AnyStartsWith(desktop_patterns, q), "desktop">>,
       <<AnyIn(weather_words, q), "weather">>,
       <<ArithmeticRule(q), "llm">>,
       <<EncyclopediaRule(q), "wikipedia">>,
       <<schedule_patterns(q), "schedule">>,
       <<AnyIn(desktop_indicators, q), "desktop">>,
       <<AnyIn(advanced_desktop_indicators, q), "advanced_desktop">>,
       <<TRUE, "llm">> >>

\* the intent of the first rule that matches
FirstMatch(rules) == rules[CHOOSE i \in 1..Len(rules) :
                             rules[i][1] /\ \A j \in 1..(i - 1) : ~rules[j][1]][2]

\* the intent the priority order gives each utterance: with the desktop verbs only in
\* the last family, and with the commands that begin with one among the domain keywords
StatedIntent == [u \in KnownUtterances |-> FirstMatch(PriorityOrder(QueryLower(u), FALSE))]
OrderedIntent == [u \in KnownUtterances |-> FirstMatch(PriorityOrder(QueryLower(u), TRUE))]

\* C18 as stated: classify_intent returns the intent of the first matching rule in the
\* order time-qualified desktop > media > domain keywords > weather > arithmetic >
\* encyclopedia > generic scheduling > generic desktop verbs > default, so that weather
\* keywords take precedence over the desktop verbs open/launch/start/close.
C18_PriorityOrderAsStated ==
    [][(classified' /\ utterance' \in KnownUtterances)
       => handler' = StatedIntent[utterance']]_vars

\* C18, amended: classify_intent returns the intent of the first matching rule in that
\* order, where an utterance that begins with 'open ', 'launch ', 'start ', 'close ' or
\* 'run ' is a desktop command of the domain keywords, ahead of weather; weather,
\* arithmetic, encyclopedia and scheduling precede a desktop verb found elsewhere in the
\* utterance.
C18_PriorityOrder ==
    [][(classified' /\ utterance' \in KnownUtterances)
       => handler' = OrderedIntent[utterance']]_vars

\* an utterance of two rule families, media and weather, went to media; one with a
\* weather word and the verb 'start' further on went to weather
C18_Witness ==
    /\ classified
    /\ \/ utterance = "play weather report" /\ handler = "youtube_music"
       \/ utterance = "is it cold at the start" /\ handler = "weather"

\* the desktop commands open/launch/start X of the sessions: those _extract_time finds a
\* time in, and those without a time qualifier
DesktopCommands ==
    {u \in KnownUtterances : AnyStartsWith({"open ", "launch ", "start "}, QueryLower(u))}

TimedDesktop == DesktopCommands \cap ParsedTimes
UntimedDesktop == DesktopCommands \cap UnparsedTimes

\* C19: a desktop command with a time expression, relative or absolute, is classified
\* schedule and nothing is run at once; the same command without one is classified
\* desktop.
C19_TimedDesktopIsScheduled ==
    [][classified' =>
        /\ utterance' \in TimedDesktop => handler' = "schedule"
        /\ utterance' \in UntimedDesktop => handler' = "desktop"]_vars

\* the utterances 'remind me to X' without a time expression, and their task X
Reminders ==
    {u \in UnparsedTimes : /\ StartsWith(QueryLower(u), "remind me to ")
                           /\ Strip(Rest(QueryLower(u), 14), Whitespace) # ""}

ReminderTask == [u \in Reminders |-> Strip(Rest(QueryLower(u), 14), Whitespace)]

WhenPrompt ==
    [u \in Reminders |-> "Sure! I'll remind you to " \o ReminderTask[u]
                          \o ". When would you like me to remind you?"]

\* C20: with no task pending, a turn 'remind me to X' without a time expression goes to
\* the scheduler, leaves the task X pending, and the response asks when to remind.
C20_ReminderCreatesPending ==
    [][(TurnStep /\ ~cancelled' /\ pending_task = None /\ Idle(state)
          /\ utterance' \in Reminders)
       => /\ handler' = "schedule"
          /\ pending_task' = Some(ReminderTask[utterance'])
          /\ response' = <<WhenPrompt[utterance']>>]_vars

\* the utterances that hold a keyword of a rule above the arithmetic check
HigherPriority ==
    {u \in KnownUtterances : \E i \in 1..12 : PriorityOrder(QueryLower(u), TRUE)[i][1]}

\* the utterances with an arithmetic operator (a sign, or an x between two operands) or
\* an arithmetic number word
Arithmetic ==
    {u \in KnownUtterances :
        \/ AnyIn({"+", "-", "*", "/", " x "}, QueryLower(u))
        \/ AnyIn(number_words, QueryLower(u))}

\* the utterances that begin with a lookup pattern, of three words or more, and the rest
LookupPrefixed ==
    {u \in KnownUtterances :
        AnyStartsWith({"who is", "tell me about", "information about"}, QueryLower(u))}

Lookups == {u \in LookupPrefixed : AnyStartsWith(wiki_patterns, QueryLower(u))
                                   /\ Len(Split(QueryLower(u))) >= 3}

\* C21: an utterance that begins with 'who is ', 'tell me about ' or 'information about ',
\* has three words or more and holds no arithmetic operator or number word and no keyword
\* of a higher rule is classified wikipedia; one with such a prefix and fewer than three
\* words is not, and one with an arithmetic number word or operator is not.
C21_EncyclopediaLookups ==
    [][classified' =>
        /\ utterance' \in (Lookups \ (Arithmetic \cup HigherPriority))
              => handler' = "wikipedia"
        /\ utterance' \in ((LookupPrefixed \ Lookups) \cup Arithmetic)
              => handler' # "wikipedia"]_vars

\* the intent of each utterance's text, asked of the rules outside any conversation
TextIntent == [u \in KnownUtterances |-> ClassifyRules(u, FALSE)]

\* the handlers process dispatches to that belong to neither the email assistant nor the
\* scheduler: they touch neither's state
Stateless == {"llm", "wikipedia", "weather", "desktop", "youtube_music"}

\* C22: classify_intent is a function of the utterance text alone: in every state of the
\* router (whatever the email assistant's mode and pending_send) a classified turn gets
\* the intent of its text, and classifying changes no state: a turn classified to a
\* handler without state leaves the email assistant and the pending task as they were.
C22_ClassifyIsAFunctionOfText ==
    [][(classified' /\ utterance' \in KnownUtterances) =>
        /\ handler' = TextIntent[utterance']
        /\ handler' \in Stateless => (state' = state /\ pending_task' = pending_task)]_vars

\* inside an email conversation, utterances were classified as outside it
C22_Witness ==
    /\ classified
    /\ state.mode # "idle"
    /\ utterance = "who is alan turing"
    /\ handler = "wikipedia"

\* the reply requests: the utterances process_voice_command gives to _reply_to_email
\* when nothing is pending
ReplyRequests ==
    {u \in KnownUtterances : /\ AnyIn(Range(reply_keywords), QueryLower(u))
                             /\ ~AnyIn(check_keywords, QueryLower(u))}

\* the positions the ordinal words of u name: 1, 2, 3, and 0 for 'last'
Positions(q) ==
    (IF AnyIn({"first", "latest", "newest", "most recent"}, q) THEN {1} ELSE {})
    \cup (IF Contains("second", q) THEN {2} ELSE {})
    \cup (IF Contains("third", q) THEN {3} ELSE {})
    \cup (IF Contains("last", q) THEN {0} ELSE {})

\* the reply requests with the ordinal words of one position, and the position
OrdinalRequests == {u \in ReplyRequests : Cardinality(Positions(QueryLower(u))) = 1}
Position == [u \in OrdinalRequests |-> CHOOSE k \in Positions(QueryLower(u)) : TRUE]

\* C23: with emails loaded and nothing pending, a reply request with 'first', 'latest',
\* 'newest' or 'most recent' makes the first recent email the active one, 'second' the
\* second, 'third' the third, 'last' the final one, whatever sender the request names; an
\* ordinal beyond the list selects no email outside the list.
C23_OrdinalResolution ==
    [][(~state.pending_send /\ state.recent_emails # <<>> /\ utterance' \in OrdinalRequests)
       => LET recent == state.recent_emails
              k == Position[utterance']
          IN /\ k = 0 => state'.active_email = Some(recent[Len(recent)])
             /\ k \in 1..Len(recent) => state'.active_email = Some(recent[k])
             /\ k > Len(recent) =>
                   state'.active_email \in
                       {state.active_email} \cup {Some(recent[i]) : i \in 1..Len(recent)}]_vars

\* of three emails, the request that names Charlie and says 'first' selected the first,
\* Alice's
C23_Witness ==
    /\ utterance = "reply to charlie first"
    /\ state.recent_emails = <<EmailA, EmailB, EmailC>>
    /\ state.active_email = Some(EmailA)

\* whether q names the sender of one of the emails, by name or by address local part
NamesSender(q) ==
    \E e \in {EmailA, EmailB, EmailC, EmailD} :
        Contains(Lower(e.from_name), q) \/ Contains(LocalPart(Lower(e.from)), q)

\* the reply requests without a selector: no ordinal word, no sender
BareReplies ==
    {u \in ReplyRequests : Positions(QueryLower(u)) = {} /\ ~NamesSender(QueryLower(u))}

\* C24: with recent emails of two senders or more and nothing pending, a reply request
\* without a selector is answered with the list of the senders' names; no reply is
\* generated and the conversation state (active_email, mode, pending_send and the rest)
\* stays as it was.
C24_AmbiguityReprompt ==
    [][(~state.pending_send /\ Len(state.recent_emails) >= 2 /\ utterance' \in BareReplies)
       => /\ response' = <<"Which email? I have emails from "
                            \o JoinNames(state.recent_emails)
                            \o ". Say 'reply to' followed by the name.">>
          /\ state' = state
          /\ sent' = <<>>]_vars

\* 'send reply' with the emails of Alice, Bob and Charlie loaded was answered with their names
C24_Witness ==
    /\ utterance = "send reply"
    /\ state.recent_emails = <<EmailA, EmailB, EmailC>>
    /\ state.active_email = None
    /\ state.mode = "email_check"
    /\ response = <<"Which email? I have emails from Alice, Bob, Charlie. Say 'reply to' followed by the name.">>

\* the reply utterances that only say which email: 'reply to <sender name>' and
\* 'reply to the <ordinal> one'
ReferentOnly ==
    {u \in KnownUtterances :
        QueryLower(u) \in
            {"reply to " \o Lower(e.from_name) : e \in {EmailA, EmailB, EmailC, EmailD}}
            \cup {"reply to the " \o w \o " one" :
                     w \in {"first", "latest", "newest", "most recent", "second", "third", "last"}}}

\* C25: in checking mode with nothing pending, a reply utterance that only says which
\* email makes an email the active one, moves to replying mode and asks what to say; no
\* reply is drafted and no confirmation is pending.
C25_ReferentOnlyAsksContent ==
    [][(state.mode = "email_check" /\ ~state.pending_send /\ utterance' \in ReferentOnly)
       => /\ state'.active_email # None
          /\ state'.mode = "email_reply"
          /\ ~state'.pending_send
          /\ state'.reply_body = state.reply_body
          /\ response' = <<"What would you like to say to "
                            \o FromName(Val(state'.active_email)) \o "?">>]_vars

\* the compose utterances without an address: what process_voice_command gives to
\* _compose_email when nothing is pending, with no '@' in it
ComposeNoAddress ==
    {u \in KnownUtterances : /\ AnyIn(compose_keywords, QueryLower(u))
                             /\ ~AnyIn(check_keywords, QueryLower(u))
                             /\ ~AnyIn(Range(reply_keywords), QueryLower(u))
                             /\ ~Contains("@", QueryLower(u))}

\* C26: with nothing pending, a compose utterance without an address is answered with the
\* request for a recipient and changes nothing: nothing is generated or sent, draft_email
\* and pending_send stay as they were.
C26_ComposeNeedsAddress ==
    [][(~state.pending_send /\ utterance' \in ComposeNoAddress)
       => /\ response' = <<AskRecipient>>
          /\ state' = state
          /\ sent' = <<>>]_vars

\* with a recipient already drafted, 'compose' was answered with the request and the draft
\* is still there
C26_Witness ==
    /\ utterance = "compose"
    /\ response = <<AskRecipient>>
    /\ state.draft_email = Some([to |-> "dan@x.com"])
    /\ ~state.pending_send

\* C27: a turn that ends without cancellation and without an exception adds the
\* utterance and then the joined response to the memory, once each, unless the fast cache
\* answered it: then nothing is added.
C27_MemoryAppend ==
    (handler # "none" /\ ~cancelled /\ exception = None) =>
        IF handler = "fast_responses" THEN added = <<>>
        ELSE /\ Len(added) = 2
             /\ added[1] = <<"user", utterance>>
             /\ added[2][1] = "assistant"
             /\ added[2][2] = Concat(response)

\* C28: a timer thread runs apart from the turns: its step leaves the pending task and
\* the email conversation state as they were, every later utterance gets the responses it
\* would have got without it, and what the thread prints is in no response and not in
\* the memory; a turn prints nothing for a timer.
C28_TimerRunsApart ==
    [][IF TurnStep THEN printed' = None
       ELSE /\ state' = state
            /\ pending_task' = pending_task
            /\ response' = response
            /\ added' = added
            /\ \A u \in SessionUtterances :
                  process(state', pending_task', u) = process(state, pending_task, u)]_vars

\* the reminder of 'call mom' ran while a second reminder was waiting for its time
C28_Witness ==
    /\ printed = Some("Reminder - call mom")
    /\ pending_task = Some("call mom")
    /\ utterance = "remind me to call mom"
    /\ timers = <<>>

\* C29, in every state: no scheduled email has been sent more than once, none that is
\* pending or cancelled has been sent, and one marked sent or failed has been sent once
SentOncePending ==
    \A i \in 1..Len(scheduled_emails) :
        LET e == scheduled_emails[i] IN
        /\ e.sent_count <= 1
        /\ e.status \in {"pending", "cancelled"} => e.sent_count = 0
        /\ e.status \in {"sent", "failed"} => e.sent_count = 1

\* C29, in every step: an email that is not pending stays as it is, whatever is called
\* later; a call (a step in which no time passes) returns the success of
\* cancel_scheduled_email only when it cancelled an email that was pending
SettledStays ==
    /\ \A i \in 1..Len(scheduled_emails) :
          scheduled_emails[i].status # "pending" => scheduled_emails'[i] = scheduled_emails[i]
    /\ (returned' = Some("cancelled") /\ now' = now) =>
          \E i \in 1..Len(scheduled_emails) :
              /\ scheduled_emails[i].status = "pending"
              /\ scheduled_emails'[i].status = "cancelled"

\* C29: a scheduled email is sent at most once and only while it is pending: once it is
\* marked sent, failed or cancelled no later call sends it or changes it, and a
\* cancellation succeeds only on an email that is still pending.
C29_ScheduledSentOnce == [][SentOncePending /\ SentOncePending' /\ SettledStays]_vars

\* one email was sent when due, another was cancelled, and a cancellation of the sent one
\* was refused
C29_Witness ==
    /\ Len(scheduled_emails) = 2
    /\ scheduled_emails[1].status = "sent"
    /\ scheduled_emails[2].status = "cancelled"
    /\ returned = Some("not found or already sent")

\* C30: after any sequence of add_to_queue, clear_queue, shuffle_queue, play_playlist,
\* next_track and previous_track the queue holds at most max_queue_size tracks, and
\* queue_index lies between -1 and len(queue) - 1.
C30_QueueWithinBounds ==
    /\ Len(queue) <= max_queue_size
    /\ queue_index \in -1..(Len(queue) - 1)

\* the part of C30 about the index alone
QueueIndexInRange == queue_index \in -1..(Len(queue) - 1)

\* the queue stays within the larger of max_queue_size and the playlist limit
QueueWithinPlaylistLimit ==
    Len(queue) <= IF max_queue_size > PlaylistLimit THEN max_queue_size ELSE PlaylistLimit

====
